---- MODULE Spec2Model ----
(***************************************************************************)
(* A model of pyBenchMarks.py: the benchmark driver that builds a Go       *)
(* binary, then times ./describe and a pandas one-liner REPEATS times on   *)
(* every test_data/*.csv and prints min/max/mean/median of the samples.    *)
(*                                                                         *)
(* The driver is one sequential Python process.  Its environment is        *)
(* modelled with it: the directory contents, the inherited process         *)
(* environment, the wall clock read by time.time(), and the child          *)
(* processes started by subprocess.run.                                    *)
(*                                                                         *)
(* Times are integers (whole clock ticks of one second); a printed         *)
(* statistic is the integer number of 1e-4 s that "{:.4f}" shows.          *)
(***************************************************************************)
EXTENDS Integers, Sequences, FiniteSets, TLC

(***************************************************************************)
(* Program constants                                                       *)
(***************************************************************************)
REPEATS == 5
TEST_DATA_DIR == "test_data"
GO_BINARY == "./describe"

(***************************************************************************)
(* Bounds of the model                                                     *)
(***************************************************************************)
\* how many times the wall clock changes (forward or backward) during a run
MaxClockMoves == 1
\* SpecSummary: longest sample list handed to print_summary, largest sample
MaxLen == 4
MaxSample == 4
\* SpecRun: largest repeats argument handed to benchmark_command
MaxRepeats == 3

VARIABLES
  pc,            \* the driver's position
  exc,           \* the uncaught exception that ended the run, or "none"
  dir,           \* environment: names of the entries of test_data/
  environ,       \* environment: os.environ of the driver (only CSV_FILE)
  now,           \* environment: the wall clock, what time.time() returns
  moves,         \* how often the clock has changed so far (bounded)
  procs,         \* environment: child processes in flight
  rc,            \* returncode of the child that exited last
  csv_files,     \* main: the list glob.glob returned
  idx,           \* main: position of the for loop in csv_files
  csv_file,      \* benchmark_dataset: its argument
  go_env,        \* benchmark_dataset: the local go_env
  go_times,      \* benchmark_dataset: the local go_times
  pandas_times,  \* benchmark_dataset: the local pandas_times
  cmd,           \* benchmark_command: its argument cmd
  repeats,       \* benchmark_command: its argument repeats
  i,             \* benchmark_command: iterations of the for loop started
  start,         \* benchmark_command: the local start
  times,         \* benchmark_command: the local times
  caller,        \* benchmark_command: who called it ("go", "pandas", "test")
  launches,      \* history: every subprocess.run attempt, in order
  exits,         \* history: every child exit, in order
  stdout         \* history: everything printed, in order

vars == << pc, exc, dir, environ, now, moves, procs, rc, csv_files, idx,
           csv_file, go_env, go_times, pandas_times, cmd, repeats, i, start,
           times, caller, launches, exits, stdout >>

None == "none"
\* no path: an unset CSV_FILE, an unbound csv_file
NoPath == << >>
\* the local go_env before line 35 binds it
NoEnv == [CSV_FILE |-> NoPath]

(***************************************************************************)
(* File names are sequences of characters, so that matching "*.csv" is     *)
(* computed and not assumed.                                               *)
(***************************************************************************)
A_CSV     == << "a", ".", "c", "s", "v" >>
B_CSV     == << "b", ".", "c", "s", "v" >>
NOTES_TXT == << "n", ".", "t", "x", "t" >>
HIDDEN_CSV == << ".", "h", ".", "c", "s", "v" >>

FileNames == { A_CSV, B_CSV, NOTES_TXT, HIDDEN_CSV }

CSV_PATTERN == << "*", ".", "c", "s", "v" >>

\* fnmatch: "*" matches any run of characters, anything else itself
RECURSIVE fnmatch(_, _)
fnmatch(name, pat) ==
  IF pat = << >> THEN name = << >>
  ELSE IF Head(pat) = "*"
       THEN \/ fnmatch(name, Tail(pat))
            \/ (name # << >> /\ fnmatch(Tail(name), pat))
       ELSE /\ name # << >>
            /\ Head(name) = Head(pat)
            /\ fnmatch(Tail(name), Tail(pat))

\* glob: a pattern that does not start with a dot never matches a dot-file
ishidden(name) == name # << >> /\ Head(name) = "."

glob_all_mutant(name, pat) == ~ishidden(name)

globmatch(name, pat) ==
  /\ (ishidden(name) => ishidden(pat))
  /\ fnmatch(name, pat)

\* os.path.join(TEST_DATA_DIR, name)
path_join(d, name) == << d, "/" >> \o name

\* the paths glob.glob(os.path.join(TEST_DATA_DIR, "*.csv")) can return
glob_paths(entries) ==
  { path_join(TEST_DATA_DIR, n) : n \in { m \in entries : globmatch(m, CSV_PATTERN) } }

\* all orders of a finite set, as sequences without repetition
Orderings(S) ==
  { s \in [1..Cardinality(S) -> S] : \A x \in S : \E k \in DOMAIN s : s[k] = x }

(***************************************************************************)
(* Commands                                                                *)
(***************************************************************************)
BUILD_CMD == << "go", "build", "-o", GO_BINARY >>
GO_CMD == << GO_BINARY >>
\* the f-string with csv_file interpolated is kept as the pair (text, path)
pandas_script(f) == << "import pandas as pd; pd.read_csv(", f, ").describe(include=all)" >>
PANDAS_CMD(f) == << "python3", "-c", pandas_script(f) >>

(***************************************************************************)
(* Statistics, as min, max, statistics.mean and statistics.median compute  *)
(* them.  A value is the fraction num/den.                                 *)
(***************************************************************************)
Frac(n, d) == [num |-> n, den |-> d]

\* The helpers below are recursive functions, whose arguments are values.

\* min(times), max(times): one pass, keeping the best element seen so far
min_from[best \in Int, rest \in Seq(Int)] ==
  IF rest = << >> THEN best
  ELSE min_from[IF Head(rest) < best THEN Head(rest) ELSE best, Tail(rest)]

max_from[best \in Int, rest \in Seq(Int)] ==
  IF rest = << >> THEN best
  ELSE max_from[IF Head(rest) > best THEN Head(rest) ELSE best, Tail(rest)]

min(data) == min_from[Head(data), Tail(data)]
max(data) == max_from[Head(data), Tail(data)]

sum[data \in Seq(Int)] ==
  IF data = << >> THEN 0 ELSE Head(data) + sum[Tail(data)]

\* sorted(data): stable insertion into an ascending list
insort[x \in Int, s \in Seq(Int)] ==
  IF s = << >> THEN << x >>
  ELSE IF x < Head(s) THEN << x >> \o s
       ELSE << Head(s) >> \o insort[x, Tail(s)]

sorted[data \in Seq(Int)] ==
  IF data = << >> THEN << >> ELSE insort[Head(data), sorted[Tail(data)]]

\* statistics.mean: the exact sum over the number of data points
mean(data) == Frac(sum[data], Len(data))

median_upper_mutant(data) ==
  LET s == sorted[data]
      n == Len(s)
  IN  Frac(s[(n \div 2) + 1], 1)

\* statistics.median: data[n//2] for odd n, else the mean of the two
\* middle elements of the sorted data (indices here are 1-based)
median(data) ==
  LET s == sorted[data]
      n == Len(s)
  IN  IF n % 2 = 1
      THEN Frac(s[(n \div 2) + 1], 1)
      ELSE Frac(s[n \div 2] + s[(n \div 2) + 1], 2)

\* "{x:.4f}": x rounded to the nearest multiple of 1e-4, as a count of 1e-4.
\* (No tie arises for den < 32, so the tie rule does not matter here.)
fmt4(x) == (2 * 10000 * x.num + x.den) \div (2 * x.den)

\* the block print_summary(name, times) prints; "arg" remembers the list
\* it was given
print_summary(name, data) ==
  [ kind   |-> "summary",
    name   |-> name,
    arg    |-> data,
    Min    |-> fmt4(Frac(min(data), 1)),
    Max    |-> fmt4(Frac(max(data), 1)),
    Mean   |-> fmt4(mean(data)),
    Median |-> fmt4(median(data)) ]

Line(kind, text) == [ kind |-> kind, name |-> text ]

(***************************************************************************)
(* subprocess.run: the child is started (or the start raises OSError),     *)
(* and the caller blocks until it exits.                                   *)
(***************************************************************************)
ReturnCodes == { 0, 1, -11 }    \* success, failure status, killed by SIGSEGV

NextPid == Len(launches) + 1

\* what subprocess.run(argv) hands the child when no env= is passed
inherited_env == environ

Attempt(argv, env, ok) ==
  [ argv |-> argv, env |-> env, ok |-> ok, csv |-> csv_file, t0 |-> now ]

\* the child of pid is in flight; hangs: it will never exit
Child(pid, hangs) == [ pid |-> pid, hangs |-> hangs, setback |-> FALSE ]

Exit(p) == [ pid |-> p.pid, dur |-> now - launches[p.pid].t0, setback |-> p.setback ]

(***************************************************************************)
(* Init: the state when the interpreter reaches main() (line 62).          *)
(***************************************************************************)
NoLocals ==
  /\ csv_file = NoPath /\ go_env = NoEnv /\ go_times = << >> /\ pandas_times = << >>
  /\ cmd = << >> /\ repeats = 0 /\ i = 0 /\ start = 0 /\ times = << >>
  /\ caller = None

Environment(dirs) ==
  /\ dir \in dirs
  /\ environ = [CSV_FILE |-> NoPath]
  /\ now = MaxClockMoves
  /\ moves = 0
  /\ procs = {}
  /\ rc = 0
  /\ launches = << >>
  /\ exits = << >>
  /\ stdout = << >>

Init ==
  /\ pc = "build_go"
  /\ exc = None
  /\ Environment(SUBSET FileNames)
  /\ csv_files = << >>
  /\ idx = 0
  /\ NoLocals

Locals == << csv_file, go_env, go_times, pandas_times >>
CallFrame == << cmd, repeats, i, start, times, caller >>
Clock == << now, moves >>
World == << dir, environ >>

(***************************************************************************)
(* build_go (lines 11-13)                                                  *)
(***************************************************************************)
\* print the banner and start "go build"; a missing go raises OSError
build_go_run ==
  /\ pc = "build_go"
  /\ stdout' = Append(stdout, Line("banner", "Building Go binary..."))
  /\ \E ok \in BOOLEAN, hangs \in BOOLEAN :
       /\ launches' = Append(launches, Attempt(BUILD_CMD, inherited_env, ok))
       /\ IF ok
          THEN /\ procs' = procs \cup { Child(NextPid, hangs) }
               /\ pc' = "build_go_wait"
               /\ exc' = exc
          ELSE /\ hangs = FALSE
               /\ procs' = procs
               /\ pc' = "aborted"
               /\ exc' = "OSError"
  /\ UNCHANGED << World, Clock, rc, csv_files, idx, Locals, CallFrame, exits >>

build_go_unchecked_mutant ==
  /\ pc = "build_go_wait"
  /\ \E p \in procs, r \in ReturnCodes :
       /\ ~p.hangs
       /\ procs' = procs \ { p }
       /\ exits' = Append(exits, Exit(p))
       /\ rc' = r
       /\ pc' = "main_glob"
       /\ exc' = exc
       /\ stdout' = Append(stdout, Line("blank", ""))
  /\ UNCHANGED << World, Clock, csv_files, idx, Locals, CallFrame, launches >>

\* "go build" exits; check=True raises CalledProcessError on a non-zero
\* status, which nothing catches.  Otherwise main goes on to its print().
build_go_check ==
  /\ pc = "build_go_wait"
  /\ \E p \in procs, r \in ReturnCodes :
       /\ ~p.hangs
       /\ procs' = procs \ { p }
       /\ exits' = Append(exits, Exit(p))
       /\ rc' = r
       /\ IF r # 0
          THEN /\ pc' = "aborted"
               /\ exc' = "CalledProcessError"
               /\ stdout' = stdout
          ELSE /\ pc' = "main_glob"
               /\ exc' = exc
               /\ stdout' = Append(stdout, Line("blank", ""))
  /\ UNCHANGED << World, Clock, csv_files, idx, Locals, CallFrame, launches >>

(***************************************************************************)
(* main (lines 49-59)                                                      *)
(***************************************************************************)
main_glob_fail_mutant ==
  /\ pc = "main_glob"
  /\ \E order \in Orderings(glob_paths(dir)) :
       /\ csv_files' = order
       /\ IF order = << >>
          THEN /\ pc' = "aborted" /\ idx' = idx /\ exc' = "SystemExit"
               /\ stdout' = Append(stdout, Line("diagnostic", "No CSV files found in test_data/"))
          ELSE /\ pc' = "main_for" /\ idx' = 1 /\ exc' = exc
               /\ stdout' = stdout
  /\ UNCHANGED << World, Clock, procs, rc, Locals, CallFrame, launches, exits >>

\* glob.glob returns the matching paths in the directory's own order;
\* with none, main prints the diagnostic and returns
main_glob ==
  /\ pc = "main_glob"
  /\ \E order \in Orderings(glob_paths(dir)) :
       /\ csv_files' = order
       /\ IF order = << >>
          THEN /\ pc' = "done" /\ idx' = idx
               /\ stdout' = Append(stdout, Line("diagnostic", "No CSV files found in test_data/"))
          ELSE /\ pc' = "main_for" /\ idx' = 1
               /\ stdout' = stdout
  /\ UNCHANGED << exc, World, Clock, procs, rc, Locals, CallFrame, launches, exits >>

\* the for loop of main is exhausted: main returns
main_return ==
  /\ pc = "main_for"
  /\ idx > Len(csv_files)
  /\ pc' = "done"
  /\ UNCHANGED << exc, World, Clock, procs, rc, csv_files, idx, Locals, CallFrame,
                  launches, exits, stdout >>

(***************************************************************************)
(* benchmark_dataset (lines 31-47)                                         *)
(***************************************************************************)
\* the next csv_file of main's loop: lines 32-37 up to the call of
\* benchmark_command([GO_BINARY], REPEATS)
benchmark_dataset_go ==
  /\ pc = "main_for"
  /\ idx <= Len(csv_files)
  /\ csv_file' = csv_files[idx]
  /\ stdout' = Append(stdout, [ kind |-> "dataset", name |-> "Benchmarking dataset",
                                csv |-> csv_files[idx] ])
  /\ go_env' = [ environ EXCEPT !.CSV_FILE = csv_files[idx] ]
  /\ cmd' = GO_CMD
  /\ repeats' = REPEATS
  /\ i' = 0
  /\ times' = << >>
  /\ caller' = "go"
  /\ pc' = "bc_for"
  /\ UNCHANGED << exc, World, Clock, procs, rc, csv_files, idx, go_times,
                  pandas_times, start, launches, exits >>

\* benchmark_command returned go_times; lines 40-44 up to the call of
\* benchmark_command(["python3", "-c", pandas_script], REPEATS)
benchmark_dataset_pandas ==
  /\ pc = "bc_for"
  /\ caller = "go"
  /\ i >= repeats
  /\ go_times' = times
  /\ cmd' = PANDAS_CMD(csv_file)
  /\ repeats' = REPEATS
  /\ i' = 0
  /\ times' = << >>
  /\ caller' = "pandas"
  /\ UNCHANGED << pc, exc, World, Clock, procs, rc, csv_files, idx, csv_file, go_env,
                  pandas_times, start, launches, exits, stdout >>

\* benchmark_command returned pandas_times; line 46
benchmark_dataset_print_go ==
  /\ pc = "bc_for"
  /\ caller = "pandas"
  /\ i >= repeats
  /\ pandas_times' = times
  /\ stdout' = Append(stdout, print_summary("Go describe", go_times))
  /\ cmd' = << >> /\ repeats' = 0 /\ i' = 0 /\ start' = 0 /\ times' = << >>
  /\ caller' = None
  /\ pc' = "print_pandas"
  /\ UNCHANGED << exc, World, Clock, procs, rc, csv_files, idx, csv_file, go_env,
                  go_times, launches, exits >>

benchmark_dataset_print_wrong_mutant ==
  /\ pc = "print_pandas"
  /\ stdout' = Append(stdout, print_summary("Pandas describe", go_times))
  /\ idx' = idx + 1
  /\ csv_file' = NoPath /\ go_env' = NoEnv /\ go_times' = << >> /\ pandas_times' = << >>
  /\ pc' = "main_for"
  /\ UNCHANGED << exc, World, Clock, procs, rc, csv_files, CallFrame, launches, exits >>

\* line 47, then benchmark_dataset returns and main's loop advances
benchmark_dataset_print_pandas ==
  /\ pc = "print_pandas"
  /\ stdout' = Append(stdout, print_summary("Pandas describe", pandas_times))
  /\ idx' = idx + 1
  /\ csv_file' = NoPath /\ go_env' = NoEnv /\ go_times' = << >> /\ pandas_times' = << >>
  /\ pc' = "main_for"
  /\ UNCHANGED << exc, World, Clock, procs, rc, csv_files, CallFrame, launches, exits >>

(***************************************************************************)
(* benchmark_command (lines 15-21)                                         *)
(***************************************************************************)
benchmark_command_nowait_mutant ==
  /\ pc = "bc_for"
  /\ i < repeats
  /\ i' = i + 1
  /\ start' = now
  /\ times' = Append(times, 0)
  /\ \E hangs \in BOOLEAN :
       /\ launches' = Append(launches, Attempt(cmd, inherited_env, TRUE))
       /\ procs' = procs \cup { Child(NextPid, hangs) }
  /\ UNCHANGED << pc, exc, World, Clock, rc, csv_files, idx, Locals, cmd, repeats,
                  caller, exits, stdout >>

\* one more iteration: start = time.time(), then subprocess.run(cmd, ...)
\* starts the child with the inherited environment (no env= is passed);
\* a command that cannot be started raises OSError, which nothing catches
benchmark_command_run ==
  /\ pc = "bc_for"
  /\ i < repeats
  /\ i' = i + 1
  /\ start' = now
  /\ \E ok \in BOOLEAN, hangs \in BOOLEAN :
       /\ launches' = Append(launches, Attempt(cmd, inherited_env, ok))
       /\ IF ok
          THEN /\ procs' = procs \cup { Child(NextPid, hangs) }
               /\ pc' = "bc_wait"
               /\ exc' = exc
          ELSE /\ hangs = FALSE
               /\ procs' = procs
               /\ pc' = "aborted"
               /\ exc' = "OSError"
  /\ UNCHANGED << World, Clock, rc, csv_files, idx, Locals, cmd, repeats, times,
                  caller, exits, stdout >>

benchmark_command_checked_mutant ==
  /\ pc = "bc_wait"
  /\ \E p \in procs, r \in ReturnCodes :
       /\ ~p.hangs
       /\ procs' = procs \ { p }
       /\ exits' = Append(exits, Exit(p))
       /\ rc' = r
       /\ IF r # 0
          THEN /\ pc' = "aborted" /\ exc' = "CalledProcessError" /\ times' = times
          ELSE /\ pc' = "bc_for" /\ exc' = exc
               /\ times' = Append(times, now - start)
  /\ UNCHANGED << World, Clock, csv_files, idx, Locals, cmd, repeats, i, start,
                  caller, launches, stdout >>

benchmark_command_success_only_mutant ==
  /\ pc = "bc_wait"
  /\ \E p \in procs, r \in ReturnCodes :
       /\ ~p.hangs
       /\ procs' = procs \ { p }
       /\ exits' = Append(exits, Exit(p))
       /\ rc' = r
       /\ times' = IF r = 0 THEN Append(times, now - start) ELSE times
  /\ pc' = "bc_for"
  /\ UNCHANGED << exc, World, Clock, csv_files, idx, Locals, cmd, repeats, i, start,
                  caller, launches, stdout >>

benchmark_command_timeout_mutant ==
  /\ pc = "bc_wait"
  /\ \E p \in procs, r \in ReturnCodes :
       /\ procs' = procs \ { p }
       /\ exits' = Append(exits, Exit(p))
       /\ rc' = r
       /\ times' = Append(times, now - start)
  /\ pc' = "bc_for"
  /\ UNCHANGED << exc, World, Clock, csv_files, idx, Locals, cmd, repeats, i, start,
                  caller, launches, stdout >>

\* the child exits, with whatever status: subprocess.run returns (no
\* check=, the result is dropped) and times.append(time.time() - start)
benchmark_command_append ==
  /\ pc = "bc_wait"
  /\ \E p \in procs, r \in ReturnCodes :
       /\ ~p.hangs
       /\ procs' = procs \ { p }
       /\ exits' = Append(exits, Exit(p))
       /\ rc' = r
       /\ times' = Append(times, now - start)
  /\ pc' = "bc_for"
  /\ UNCHANGED << exc, World, Clock, csv_files, idx, Locals, cmd, repeats, i, start,
                  caller, launches, stdout >>

(***************************************************************************)
(* The wall clock.  time.time() is the system's real-time clock: it        *)
(* advances, and it can be set back (a clock adjustment).  The driver's    *)
(* own steps take no time; time passes while it waits for a child.         *)
(***************************************************************************)
ClockAdvance ==
  /\ moves < MaxClockMoves
  /\ procs # {}
  /\ now' = now + 1
  /\ moves' = moves + 1
  /\ UNCHANGED << pc, exc, World, procs, rc, csv_files, idx, Locals, CallFrame,
                  launches, exits, stdout >>

ClockSetBack ==
  /\ moves < MaxClockMoves
  /\ procs # {}
  /\ now' = now - 1
  /\ moves' = moves + 1
  /\ procs' = { [ p EXCEPT !.setback = TRUE ] : p \in procs }
  /\ UNCHANGED << pc, exc, World, rc, csv_files, idx, Locals, CallFrame,
                  launches, exits, stdout >>

(***************************************************************************)
(* The run                                                                 *)
(***************************************************************************)
Driver ==
  \/ build_go_run
  \/ build_go_check
  \/ main_glob
  \/ main_return
  \/ benchmark_dataset_go
  \/ benchmark_dataset_pandas
  \/ benchmark_dataset_print_go
  \/ benchmark_dataset_print_pandas
  \/ benchmark_command_run
  \/ benchmark_command_append

Next ==
  \/ build_go_run
  \/ build_go_check
  \/ main_glob
  \/ main_return
  \/ benchmark_dataset_go
  \/ benchmark_dataset_pandas
  \/ benchmark_dataset_print_go
  \/ benchmark_dataset_print_pandas
  \/ benchmark_command_run
  \/ benchmark_command_append
  \/ ClockAdvance
  \/ ClockSetBack

Spec == Init /\ [][Next]_vars

\* the interpreter's exit status once main has ended (line 62): 0 after
\* main returned, 1 after an uncaught exception
Terminated == pc \in { "done", "aborted" }
exit_code == IF exc = None THEN 0 ELSE 1

(***************************************************************************)
(* SpecRun: benchmark_command called on its own, with any repeats.         *)
(***************************************************************************)
InitRun ==
  /\ pc = "bc_for"
  /\ exc = None
  /\ Environment({ {} })
  /\ csv_files = << >>
  /\ idx = 0
  /\ csv_file = NoPath /\ go_env = NoEnv /\ go_times = << >> /\ pandas_times = << >>
  /\ cmd \in { GO_CMD, PANDAS_CMD(path_join(TEST_DATA_DIR, A_CSV)) }
  /\ repeats \in 0..MaxRepeats
  /\ i = 0 /\ start = 0 /\ times = << >>
  /\ caller = "test"

\* line 21: return times
benchmark_command_return ==
  /\ pc = "bc_for"
  /\ caller = "test"
  /\ i >= repeats
  /\ pc' = "returned"
  /\ UNCHANGED << exc, World, Clock, procs, rc, csv_files, idx, Locals, CallFrame,
                  launches, exits, stdout >>

NextRun ==
  \/ benchmark_command_run
  \/ benchmark_command_append
  \/ benchmark_command_return
  \/ ClockAdvance
  \/ ClockSetBack

SpecRun == InitRun /\ [][NextRun]_vars

(***************************************************************************)
(* SpecSummary: print_summary called on its own, with any non-empty list.  *)
(***************************************************************************)
RECURSIVE SeqsOfLen(_, _)
SeqsOfLen(S, n) ==
  IF n = 0 THEN { << >> }
  ELSE { Append(s, x) : s \in SeqsOfLen(S, n - 1), x \in S }

SampleLists == UNION { SeqsOfLen((-1)..MaxSample, n) : n \in 1..MaxLen }

InitSummary ==
  /\ pc = "print_summary"
  /\ exc = None
  /\ Environment({ {} })
  /\ csv_files = << >>
  /\ idx = 0
  /\ csv_file = NoPath /\ go_env = NoEnv /\ go_times = << >> /\ pandas_times = << >>
  /\ cmd = << >> /\ repeats = 0 /\ i = 0 /\ start = 0
  /\ times \in SampleLists
  /\ caller = "test"

\* lines 23-29
print_summary_call ==
  /\ pc = "print_summary"
  /\ \E name \in { "Go describe", "Pandas describe" } :
       stdout' = Append(stdout, print_summary(name, times))
  /\ pc' = "returned"
  /\ UNCHANGED << exc, World, Clock, procs, rc, csv_files, idx, Locals, CallFrame,
                  launches, exits >>

NextSummary == print_summary_call

SpecSummary == InitSummary /\ [][NextSummary]_vars

(***************************************************************************)
(* What the histories show                                                 *)
(***************************************************************************)
IsBuild(k) == launches[k].argv = BUILD_CMD
BenchLaunches == { k \in DOMAIN launches : ~IsBuild(k) }
Summaries == { k \in DOMAIN stdout : stdout[k].kind = "summary" }
Banners == { k \in DOMAIN stdout : stdout[k].kind = "dataset" }
Diagnostics == { k \in DOMAIN stdout : stdout[k].kind = "diagnostic" }
\* main got past build_go(): its print() of line 51 has happened
BuildSucceeded == \E k \in DOMAIN stdout : stdout[k].kind = "blank"
\* glob.glob has returned
Discovered == BuildSucceeded /\ pc # "main_glob"
\* the entries of the directory that a "*.csv" listing shows: the name
\* ends in .csv and is not a dot-file
HasCsvSuffix(n) ==
  /\ Len(n) >= 4
  /\ SubSeq(n, Len(n) - 3, Len(n)) = << ".", "c", "s", "v" >>
Matching == { n \in dir : HasCsvSuffix(n) /\ Head(n) # "." }

(***************************************************************************)
(* C1: if "go build" exits non-zero, the run ends at once with             *)
(* CalledProcessError (exit status 1): no CSV file is looked for, no       *)
(* benchmarked command is started and no summary is printed.               *)
(***************************************************************************)
BuildExitedNonZero == Len(exits) = 1 /\ IsBuild(exits[1].pid) /\ rc # 0

C1_BuildFailureAborts ==
  BuildExitedNonZero =>
    /\ pc = "aborted"
    /\ exc = "CalledProcessError"
    /\ exit_code = 1
    /\ ~BuildSucceeded
    /\ csv_files = << >>
    /\ BenchLaunches = {}
    /\ Summaries = {} /\ Banners = {} /\ Diagnostics = {}
    /\ procs = {}
    /\ ~ENABLED Next

C1_Witness ==
  /\ BuildExitedNonZero
  /\ pc = "aborted"
  /\ Matching # {}

(***************************************************************************)
(* C4: every run of the compiled artifact is given an environment whose    *)
(* CSV_FILE is the path of the dataset being benchmarked.                  *)
(***************************************************************************)
C4_GoRunsSeeCsvFile ==
  \A k \in DOMAIN launches :
    (launches[k].argv = GO_CMD /\ launches[k].ok) =>
      launches[k].env.CSV_FILE = launches[k].csv

(***************************************************************************)
(* C5: when "*.csv" matches nothing in test_data/, no benchmarked command  *)
(* is started and no summary is printed; the diagnostic is printed and     *)
(* the run ends normally with exit status 0.                               *)
(***************************************************************************)
C5_EmptyDirectory ==
  (Discovered /\ Matching = {}) =>
    /\ pc = "done"
    /\ exc = None
    /\ exit_code = 0
    /\ csv_files = << >>
    /\ BenchLaunches = {}
    /\ Summaries = {} /\ Banners = {}
    /\ stdout[Len(stdout)].kind = "diagnostic"
    /\ Cardinality(Diagnostics) = 1

C5_Witness ==
  /\ Discovered
  /\ dir = { NOTES_TXT, HIDDEN_CSV }
  /\ pc = "done"

(***************************************************************************)
(* Samples, as the environment saw them: the durations of the children     *)
(* started with argv c for dataset f, in the order in which they exited.   *)
(***************************************************************************)
RECURSIVE Durations(_)
Durations(es) ==
  IF es = << >> THEN << >> ELSE << Head(es).dur >> \o Durations(Tail(es))

ExitsOf(f, c) ==
  SelectSeq(exits, LAMBDA e : launches[e.pid].argv = c /\ launches[e.pid].csv = f)

Measured(f, c) == Durations(ExitsOf(f, c))

LaunchesOf(f, c) ==
  { k \in DOMAIN launches : launches[k].argv = c /\ launches[k].csv = f }

\* the dataset a printed line belongs to: that of the last banner before it
RECURSIVE DatasetAt(_)
DatasetAt(k) ==
  IF k = 0 THEN NoPath
  ELSE IF stdout[k].kind = "dataset" THEN stdout[k].csv ELSE DatasetAt(k - 1)

SummariesOf(f, name) ==
  { k \in Summaries : DatasetAt(k) = f /\ stdout[k].name = name }

BannersOf(f) == { k \in Banners : stdout[k].csv = f }

AllPaths == { path_join(TEST_DATA_DIR, n) : n \in FileNames }

C2_NonNegativeSamples ==
  pc = "returned" => \A j \in DOMAIN times : times[j] >= 0

Iterations(f) == Cardinality(BannersOf(f))

PairComplete(f) ==
  /\ Cardinality(LaunchesOf(f, GO_CMD)) = REPEATS
  /\ Cardinality(LaunchesOf(f, PANDAS_CMD(f))) = REPEATS
  /\ Cardinality(SummariesOf(f, "Go describe")) = 1
  /\ Cardinality(SummariesOf(f, "Pandas describe")) = 1
  /\ \A k \in SummariesOf(f, "Go describe") : stdout[k].arg = Measured(f, GO_CMD)
  /\ \A k \in SummariesOf(f, "Pandas describe") : stdout[k].arg = Measured(f, PANDAS_CMD(f))

C9_StrictlySequential ==
  \* at most one child in flight, and every started child is in flight
  \* or has exited
  /\ Cardinality(procs) <= 1
  /\ Cardinality({ k \in DOMAIN launches : launches[k].ok })
       = Len(exits) + Cardinality(procs)
  \* the build is the first child and has exited before any other starts
  /\ (BenchLaunches # {} =>
        /\ IsBuild(1)
        /\ 1 \notin BenchLaunches
        /\ exits # << >>
        /\ exits[1].pid = 1)
  /\ \A b \in Banners :
       LET f == stdout[b].csv
       IN  \* pandas starts only after all REPEATS Go runs have exited
           /\ (LaunchesOf(f, PANDAS_CMD(f)) # {} => Len(ExitsOf(f, GO_CMD)) = REPEATS)
           \* a summary is printed only when both sample lists are complete
           /\ (\E m \in Summaries : DatasetAt(m) = f) =>
                 /\ Len(ExitsOf(f, GO_CMD)) = REPEATS
                 /\ Len(ExitsOf(f, PANDAS_CMD(f))) = REPEATS
           \* a later dataset begins only after both summaries of this one
           /\ \A b2 \in Banners :
                b < b2 => /\ stdout[b + 1].kind = "summary"
                          /\ stdout[b + 2].kind = "summary"
                          /\ b + 2 < b2
  \* a benchmarked command belongs to a dataset whose banner is printed
  /\ \A k \in BenchLaunches : BannersOf(launches[k].csv) # {}
  \* the child in flight belongs to the dataset that began last
  /\ \A p \in procs :
       ~IsBuild(p.pid) => launches[p.pid].csv = DatasetAt(Len(stdout))

\* the second dataset's pandas command in flight
C9_Witness ==
  /\ Cardinality(procs) = 1
  /\ Cardinality(Banners) = 2
  /\ Cardinality(Summaries) = 2
  /\ \E p \in procs : launches[p.pid].argv = PANDAS_CMD(csv_file)

(***************************************************************************)
(* C7: print_summary reports minimum, maximum, arithmetic mean and median  *)
(* of all the samples; the median of an even number of samples is the      *)
(* average of the two central ones after sorting.  [1,2,3,4] gives 1, 4,   *)
(* 2.5, 2.5; one sample, or equal samples, give that value four times.     *)
(*                                                                         *)
(* Printed values are counts of 1e-4: 2.5000 is 25000.                     *)
(***************************************************************************)
CountBelow(data, x) == Cardinality({ j \in DOMAIN data : data[j] < x })
CountAbove(data, x) == Cardinality({ j \in DOMAIN data : data[j] > x })

\* lo and hi are the two central elements of the sorted data (the same
\* element twice when the length is odd)
Central(data, lo, hi) ==
  LET n == Len(data)
  IN  /\ lo <= hi
      /\ \E a, b \in DOMAIN data : data[a] = lo /\ data[b] = hi /\ (n % 2 = 0 => a # b)
      /\ IF n % 2 = 1
         THEN /\ lo = hi
              /\ 2 * CountBelow(data, lo) < n
              /\ 2 * CountAbove(data, lo) < n
         ELSE /\ 2 * CountBelow(data, lo) < n
              /\ 2 * (n - CountAbove(data, lo)) >= n
              /\ 2 * CountAbove(data, hi) < n
              /\ 2 * (n - CountBelow(data, hi)) >= n

Total(data) ==
  LET RECURSIVE upto(_)
      upto(j) == IF j = 0 THEN 0 ELSE upto(j - 1) + data[j]
  IN  upto(Len(data))

Abs(x) == IF x < 0 THEN -x ELSE x

ReportIsRight(e) ==
  LET data == e.arg
      n == Len(data)
  IN  /\ \E j \in DOMAIN data : e.Min = 10000 * data[j]
      /\ \A j \in DOMAIN data : e.Min <= 10000 * data[j]
      /\ \E j \in DOMAIN data : e.Max = 10000 * data[j]
      /\ \A j \in DOMAIN data : e.Max >= 10000 * data[j]
      \* the mean over all n samples, to the nearest 1e-4
      /\ 2 * Abs(n * e.Mean - 10000 * Total(data)) <= n
      /\ \E j, k \in DOMAIN data :
           /\ Central(data, data[j], data[k])
           /\ e.Median = 5000 * (data[j] + data[k])
      /\ (data = << 1, 2, 3, 4 >> =>
            e.Min = 10000 /\ e.Max = 40000 /\ e.Mean = 25000 /\ e.Median = 25000)
      /\ ((\A j \in DOMAIN data : data[j] = data[1]) =>
            /\ e.Min = 10000 * data[1] /\ e.Max = 10000 * data[1]
            /\ e.Mean = 10000 * data[1] /\ e.Median = 10000 * data[1])

C7_SummaryStatistics ==
  pc = "returned" =>
    /\ Len(stdout) = 1
    /\ stdout[1].kind = "summary"
    /\ stdout[1].arg = times
    /\ ReportIsRight(stdout[1])

C7_Witness ==
  /\ pc = "returned"
  /\ stdout[1].arg = << 1, 2, 3, 4 >>
  /\ stdout[1].Median = 25000

(***************************************************************************)
(* C10: the run terminates exactly when every child returns: if each       *)
(* does, it terminates after the build and ten benchmarked executions      *)
(* per discovered CSV file; if one never returns, the run never            *)
(* terminates and nothing more is started or printed.                      *)
(***************************************************************************)
Hung == \E p \in procs : p.hangs

\* the driver keeps running and a child that is not hung exits
FairSpec == Spec /\ WF_vars(Driver)

C10_HungWitness ==
  /\ Hung
  /\ Cardinality(Summaries) = 2

====
